---- MODULE Spec2Model ----
(***************************************************************************)
(* pomotui: the Pomodoro timer of src/main.rs.                             *)
(*                                                                         *)
(* The model follows struct App (state, settings, cycle, last_update_time, *)
(* paused), its methods new/start/update, the read-only projections        *)
(* get_state_text/get_ratio and the key dispatch of run_app.               *)
(*                                                                         *)
(* Time is in milliseconds, as in the program.  The wall clock is counted  *)
(* from the instant App::new reads it (the program only ever uses          *)
(* differences of clock readings) and is assumed not to run backwards.     *)
(* u32 values are kept as residues modulo 2^32, a residue of 2^31 or more  *)
(* being written as the negative number congruent to it: the program only  *)
(* compares a cycle count with 1 and adds or subtracts small numbers.      *)
(***************************************************************************)
EXTENDS Integers, Sequences, FiniteSets, TLC

\* ------------------------------------------------------------------ bounds
\* Largest number of minutes given on the command line for the work time.
MaxMinutes == 2
\* Largest number of minutes given on the command line for either break.
MaxBreakMinutes == 1
\* Largest --cycles given on the command line.
MaxCycles == 3
\* The clock is followed for this many minutes after App::new.
MaxClockMinutes == 4
\* Phase changes counted since the last start(); update stops changing
\* phase beyond it.
MaxTrans == 7
\* convert_millis_to_time is run on every number of minutes up to this one
\* (and on 99 and 100 minutes).
MaxFmtMinutes == 12

\* ------------------------------------------------------ program constants
\* Settings::new: minutes * 60 * 1000.
MsPerMinute == 60 * 1000

\* Option<u32>
None == <<>>
Some(x) == <<x>>

\* enum PomoState
Menu == [tag |-> "Menu"]
Work(t) == [tag |-> "Work", time_left |-> t]
ShortWait(t) == [tag |-> "ShortWait", time_left |-> t]
LongWait(t) == [tag |-> "LongWait", time_left |-> t]

\* PomoState::get_inner
get_inner(s) == IF s.tag = "Menu" THEN None ELSE Some(s.time_left)

\* struct Args, as clap parses it: i64 minutes and a u32 cycle count; no
\* range is checked, so 0 is accepted for each of them.
Args ==
    [work_time : 0..MaxMinutes, short_wait_time : 0..MaxBreakMinutes,
     long_wait_time : 0..MaxBreakMinutes, cycles : 0..MaxCycles]

\* Settings::new
Settings_new(args) ==
    [work_time |-> args.work_time * 60 * 1000,
     short_wait_time |-> args.short_wait_time * 60 * 1000,
     long_wait_time |-> args.long_wait_time * 60 * 1000,
     work_cycles |-> args.cycles]

\* The instants at which the program may read the clock: each whole minute
\* and the millisecond before it.
ClockReadings ==
    {t \in {k * MsPerMinute + j : k \in 0..MaxClockMinutes, j \in {-1, 0}} :
        t >= 0 /\ t <= MaxClockMinutes * MsPerMinute}

VARIABLES
    app,     \* struct App
    clock,   \* what get_sys_time() returns now
    pc,      \* "run": in the loop of run_app; "quit": returned Ok; "panic"
    nTrans,  \* history: phase changes made by update since the last start()
    hist,    \* history: the last operation (op), the App before it (pre), the
             \* clock it read (now), the clock read by the latest call of
             \* new, start or update before it (prev_call), whether start
             \* was ever called (started), whether the session has been
             \* paused ever since a start() made while paused (held), and,
             \* where it is recorded (gap.rec), what lies between the two
             \* latest calls of new, start or update, or since the latest
             \* one if none has followed it yet (gap): the App as the
             \* earlier call left it (at_call), the 'p' keys (toggles: 0
             \* none, 1 an odd number, 2 an even number) and whether
             \* clock time went by while paused (paused_time)
    term,    \* the terminal: raw mode on (raw), alternate screen and mouse
             \* capture on (alt)
    fmt      \* a run of convert_millis_to_time: its argument (millis),
             \* whether it has returned (done) and the String returned (text)

vars == <<app, clock, pc, nTrans, hist, term, fmt>>

\* get_sys_time
get_sys_time == clock

\* App::new
App_new(args, time) ==
    [state |-> Menu,
     settings |-> Settings_new(args),
     cycle |-> None,
     last_update_time |-> time,
     paused |-> FALSE]

\* history: nothing has happened since the latest call, which left the App
\* a; rec says whether the behaviour records it
NoGap(rec, a) ==
    [rec |-> rec, toggles |-> 0, paused_time |-> FALSE,
     at_call |-> IF rec THEN a ELSE None]

\* The terminal as main found it, and as run_app has it: raw mode on,
\* alternate screen entered.
Cooked == [raw |-> FALSE, alt |-> FALSE]
InLoop == [raw |-> TRUE, alt |-> TRUE]

\* No run of convert_millis_to_time is followed.
NoFmt == [millis |-> 0, done |-> FALSE, text |-> ""]

Init ==
    /\ clock = 0
    /\ \E args \in Args : app = App_new(args, get_sys_time)
    /\ pc = "run"
    /\ nTrans = 0
    /\ hist = [op |-> "new", pre |-> app, now |-> clock, prev_call |-> clock,
               started |-> FALSE, held |-> FALSE,
               gap |-> NoGap(FALSE, app)]
    /\ term = InLoop
    /\ fmt = NoFmt

\* start as it would be if it forgot to read the clock
start_stale_clock(a, time) ==
    [a EXCEPT !.state = Work(a.settings.work_time),
              !.cycle = Some(a.settings.work_cycles)]

\* start as it would be if it left the cycle counter alone
start_keep_cycle(a, time) ==
    [a EXCEPT !.state = Work(a.settings.work_time),
              !.last_update_time = time]

\* start as it would be if it also resumed a paused session
start_unpause(a, time) ==
    [a EXCEPT !.state = Work(a.settings.work_time),
              !.cycle = Some(a.settings.work_cycles),
              !.last_update_time = time,
              !.paused = FALSE]

\* App::start
start(a, time) ==
    [a EXCEPT !.state = Work(a.settings.work_time),
              !.cycle = Some(a.settings.work_cycles),
              !.last_update_time = time]

\* is_positive as it would be if zero counted as positive
is_non_negative(x) == x >= 0

\* i64::is_positive
is_positive(x) == x > 0

\* App::update, "just update the timer": the same variant, new time_left.
countdown(s, new_inner_time) == [s EXCEPT !.time_left = new_inner_time]

\* next_phase as it would be without the Some(1) arm: every work interval
\* is followed by a short break
next_phase_no_long(a, checked) ==
    CASE a.state.tag = "Work" /\ a.cycle # None ->
            [app |-> [a EXCEPT !.state = ShortWait(a.settings.short_wait_time)],
             panicked |-> FALSE]
      [] a.state.tag = "ShortWait" /\ a.cycle # None ->
            IF a.cycle[1] = 0 /\ checked
            THEN [app |-> [a EXCEPT !.state = Work(a.settings.work_time)],
                  panicked |-> TRUE]
            ELSE [app |-> [a EXCEPT !.state = Work(a.settings.work_time),
                                    !.cycle = Some(a.cycle[1] - 1)],
                  panicked |-> FALSE]
      [] a.state.tag = "LongWait" ->
            [app |-> [a EXCEPT !.state = Work(a.settings.work_time),
                               !.cycle = Some(a.settings.work_cycles)],
             panicked |-> FALSE]
      [] OTHER ->
            [app |-> a, panicked |-> TRUE]

\* next_phase as it would be if the long break did not reset the counter
next_phase_no_reset(a, checked) ==
    CASE a.state.tag = "Work" /\ a.cycle = Some(1) ->
            [app |-> [a EXCEPT !.state = LongWait(a.settings.long_wait_time)],
             panicked |-> FALSE]
      [] a.state.tag = "Work" /\ a.cycle # None ->
            [app |-> [a EXCEPT !.state = ShortWait(a.settings.short_wait_time)],
             panicked |-> FALSE]
      [] a.state.tag = "ShortWait" /\ a.cycle # None ->
            IF a.cycle[1] = 0 /\ checked
            THEN [app |-> [a EXCEPT !.state = Work(a.settings.work_time)],
                  panicked |-> TRUE]
            ELSE [app |-> [a EXCEPT !.state = Work(a.settings.work_time),
                                    !.cycle = Some(a.cycle[1] - 1)],
                  panicked |-> FALSE]
      [] a.state.tag = "LongWait" ->
            [app |-> [a EXCEPT !.state = Work(a.settings.work_time)],
             panicked |-> FALSE]
      [] OTHER ->
            [app |-> a, panicked |-> TRUE]

\* App::update, "update the state": the match on (self.state, self.cycle).
\* The result is the App when update returns or panics; checked says
\* whether the build checks integer overflow (a debug build does, a
\* release build wraps).
next_phase(a, checked) ==
    CASE a.state.tag = "Work" /\ a.cycle = Some(1) ->
            [app |-> [a EXCEPT !.state = LongWait(a.settings.long_wait_time)],
             panicked |-> FALSE]
      [] a.state.tag = "Work" /\ a.cycle # None ->
            [app |-> [a EXCEPT !.state = ShortWait(a.settings.short_wait_time)],
             panicked |-> FALSE]
      [] a.state.tag = "ShortWait" /\ a.cycle # None ->
            \* self.state is assigned before i - 1 is computed
            IF a.cycle[1] = 0 /\ checked
            THEN [app |-> [a EXCEPT !.state = Work(a.settings.work_time)],
                  panicked |-> TRUE]
            ELSE [app |-> [a EXCEPT !.state = Work(a.settings.work_time),
                                    !.cycle = Some(a.cycle[1] - 1)],
                  panicked |-> FALSE]
      [] a.state.tag = "LongWait" ->
            [app |-> [a EXCEPT !.state = Work(a.settings.work_time),
                               !.cycle = Some(a.settings.work_cycles)],
             panicked |-> FALSE]
      [] OTHER -> \* unreachable!()
            [app |-> a, panicked |-> TRUE]

\* update as it would be if the time overshot were charged to the new phase
update_app_carry(a, time, checked) ==
    LET delta == time - a.last_update_time
        a1 == [a EXCEPT !.last_update_time = time]
    IN  IF a.paused
        THEN [app |-> a1, panicked |-> FALSE]
        ELSE IF get_inner(a1.state) = None
        THEN [app |-> a1, panicked |-> FALSE]
        ELSE LET inner_time == get_inner(a1.state)[1]
                 new_inner_time == inner_time - delta
             IN  IF is_positive(new_inner_time)
                 THEN [app |-> [a1 EXCEPT !.state = countdown(a1.state, new_inner_time)],
                       panicked |-> FALSE]
                 ELSE LET r == next_phase(a1, checked)
                      IN  [r EXCEPT !.app.state.time_left = @ + new_inner_time]

\* update as it would be if a paused tick returned before recording the clock
update_app_pause_first(a, time, checked) ==
    LET delta == time - a.last_update_time
        a1 == [a EXCEPT !.last_update_time = time]
    IN  IF a.paused
        THEN [app |-> a, panicked |-> FALSE]
        ELSE IF get_inner(a1.state) = None
        THEN [app |-> a1, panicked |-> FALSE]
        ELSE LET inner_time == get_inner(a1.state)[1]
                 new_inner_time == inner_time - delta
             IN  IF is_positive(new_inner_time)
                 THEN [app |-> [a1 EXCEPT !.state = countdown(a1.state, new_inner_time)],
                       panicked |-> FALSE]
                 ELSE next_phase(a1, checked)

\* update as it would be if a tick in the menu returned before recording
\* the clock
update_app_menu_first(a, time, checked) ==
    LET delta == time - a.last_update_time
        a1 == [a EXCEPT !.last_update_time = time]
    IN  IF get_inner(a.state) = None
        THEN [app |-> a, panicked |-> FALSE]
        ELSE IF a.paused
        THEN [app |-> a1, panicked |-> FALSE]
        ELSE LET inner_time == get_inner(a1.state)[1]
                 new_inner_time == inner_time - delta
             IN  IF is_positive(new_inner_time)
                 THEN [app |-> [a1 EXCEPT !.state = countdown(a1.state, new_inner_time)],
                       panicked |-> FALSE]
                 ELSE next_phase(a1, checked)

\* update as it would be if it counted the elapsed time in whole seconds
update_app_whole_seconds(a, time, checked) ==
    LET delta == ((time - a.last_update_time) \div 1000) * 1000
        a1 == [a EXCEPT !.last_update_time = time]
    IN  IF a.paused
        THEN [app |-> a1, panicked |-> FALSE]
        ELSE IF get_inner(a1.state) = None
        THEN [app |-> a1, panicked |-> FALSE]
        ELSE LET inner_time == get_inner(a1.state)[1]
                 new_inner_time == inner_time - delta
             IN  IF is_positive(new_inner_time)
                 THEN [app |-> [a1 EXCEPT !.state = countdown(a1.state, new_inner_time)],
                       panicked |-> FALSE]
                 ELSE next_phase(a1, checked)

\* App::update
update_app(a, time, checked) ==
    LET delta == time - a.last_update_time
        a1 == [a EXCEPT !.last_update_time = time]
    IN  IF a.paused
        THEN [app |-> a1, panicked |-> FALSE]
        ELSE IF get_inner(a1.state) = None
        THEN [app |-> a1, panicked |-> FALSE]
        ELSE LET inner_time == get_inner(a1.state)[1]
                 new_inner_time == inner_time - delta
             IN  IF is_positive(new_inner_time)
                 THEN [app |-> [a1 EXCEPT !.state = countdown(a1.state, new_inner_time)],
                       panicked |-> FALSE]
                 ELSE next_phase(a1, checked)

\* Does update change (or try to change) the phase at this clock reading?
PhaseDue(a, time) ==
    /\ ~a.paused
    /\ a.state.tag # "Menu"
    /\ ~is_positive(a.state.time_left - (time - a.last_update_time))

\* history: the clock read by the latest call of new, start or update
LastCall == IF hist.op \in {"new", "start", "update"} THEN hist.now ELSE hist.prev_call

\* history: the record of an operation op that read (or, for the clock
\* itself, reached) the instant now
Log(op, now) ==
    [op |-> op, pre |-> app, now |-> now, prev_call |-> LastCall,
     started |-> (hist.started \/ op = "start"),
     held |-> CASE op = "start" -> app.paused
                [] op = "toggle_pause" -> FALSE
                [] OTHER -> hist.held,
     gap |-> LET since == IF hist.op \in {"new", "start", "update"}
                          THEN NoGap(hist.gap.rec, app)
                          ELSE hist.gap
             IN  CASE since.rec /\ op = "toggle_pause" ->
                        [since EXCEPT !.toggles = IF @ = 1 THEN 2 ELSE 1]
                   [] since.rec /\ op = "clock" ->
                        [since EXCEPT !.paused_time = @ \/ app.paused]
                   [] OTHER -> since]

\* run_app: the key 's'
KeyStart ==
    /\ pc = "run"
    /\ app' = start(app, get_sys_time)
    /\ nTrans' = 0
    /\ hist' = Log("start", clock)
    /\ UNCHANGED <<term, fmt>>
    /\ UNCHANGED <<clock, pc>>

\* the 'p' key as it would be if it could only pause, never resume
pause_only(a) == [a EXCEPT !.paused = TRUE]

\* the 'p' key as it would be if resuming also restarted the measurement of
\* elapsed time, so that time spent paused were never subtracted
toggle_pause_resync(a) ==
    [a EXCEPT !.paused = ~a.paused,
              !.last_update_time = IF a.paused THEN clock ELSE @]

\* run_app: app.paused = !app.paused
toggle_pause(a) == [a EXCEPT !.paused = ~a.paused]

\* run_app: the key 'p'
KeyPause ==
    /\ pc = "run"
    /\ app' = toggle_pause(app)
    /\ hist' = Log("toggle_pause", clock)
    /\ UNCHANGED <<term, fmt>>
    /\ UNCHANGED <<clock, pc, nTrans>>

\* the 'q' key as it would be if the loop ran the due tick before returning
KeyQuit_then_update ==
    /\ pc = "run"
    /\ app' = update_app(app, get_sys_time, FALSE).app
    /\ pc' = "quit"
    /\ hist' = Log("quit", clock)
    /\ UNCHANGED <<term, fmt>>
    /\ UNCHANGED <<clock, nTrans>>

\* run_app: the key 'q'
KeyQuit ==
    /\ pc = "run"
    /\ pc' = "quit"
    /\ hist' = Log("quit", clock)
    /\ UNCHANGED <<term, fmt>>
    /\ UNCHANGED <<app, clock, nTrans>>

\* run_app: any other key, or an event that is not a key
KeyOther ==
    /\ pc = "run"
    /\ hist' = Log("ignored", clock)
    /\ UNCHANGED <<term, fmt>>
    /\ UNCHANGED <<app, clock, pc, nTrans>>

\* run_app: app.update() when a tick is due
Tick ==
    /\ pc = "run"
    /\ PhaseDue(app, get_sys_time) => nTrans < MaxTrans
    /\ \E checked \in BOOLEAN :
          LET r == update_app(app, get_sys_time, checked)
          IN  /\ app' = r.app
              /\ pc' = IF r.panicked THEN "panic" ELSE "run"
    /\ nTrans' = IF PhaseDue(app, get_sys_time) THEN nTrans + 1 ELSE nTrans
    /\ hist' = Log("update", clock)
    /\ UNCHANGED <<term, fmt>>
    /\ UNCHANGED clock

\* The wall clock moves on.
ClockAdvance ==
    /\ pc = "run"
    /\ \E t \in ClockReadings : t > clock /\ clock' = t
    /\ hist' = Log("clock", clock')
    /\ UNCHANGED <<term, fmt>>
    /\ UNCHANGED <<app, pc, nTrans>>

\* ------------------------------------------------------------ projections
\* {:02} as it would be without the zero flag: no padding
Pad_none(n) == ToString(n)

\* format!("{:02}", n)
Pad2(n) == IF n < 10 THEN "0" \o ToString(n) ELSE ToString(n)

\* convert_millis_to_time
convert_millis_to_time(millis) ==
    LET seconds == millis \div 1000
        minutes == seconds \div 60
    IN  Pad2(minutes) \o ":" \o Pad2(seconds % 60)

\* App::get_state_text
get_state_text(a) ==
    IF a.paused THEN "PAUSED"
    ELSE CASE a.state.tag = "Menu" -> "Press 's' to start, 'q' to quit, 'p' to pause"
           [] a.state.tag = "Work" ->
                 "Work: " \o convert_millis_to_time(a.state.time_left) \o " - Cycle "
                 \o ToString(a.settings.work_cycles - a.cycle[1] + 1) \o "/"
                 \o ToString(a.settings.work_cycles)
           [] a.state.tag = "ShortWait" ->
                 "Short break: " \o convert_millis_to_time(a.state.time_left) \o " - Cycle "
                 \o ToString(a.settings.work_cycles - a.cycle[1] + 1) \o "/"
                 \o ToString(a.settings.work_cycles)
           [] a.state.tag = "LongWait" ->
                 "Long break: " \o convert_millis_to_time(a.state.time_left)

\* An f64 quotient num / den, kept as the pair it is computed from.
Ratio(n, d) == [num |-> n, den |-> d]

\* get_ratio as it would be without the paused check
get_ratio_unpaused(a) ==
    CASE a.state.tag = "Menu" -> Ratio(0, 1)
      [] a.state.tag = "Work" -> Ratio(a.state.time_left, a.settings.work_time)
      [] a.state.tag = "ShortWait" -> Ratio(a.state.time_left, a.settings.short_wait_time)
      [] a.state.tag = "LongWait" -> Ratio(a.state.time_left, a.settings.long_wait_time)

\* App::get_ratio
get_ratio(a) ==
    IF a.paused THEN Ratio(1, 1)
    ELSE CASE a.state.tag = "Menu" -> Ratio(0, 1)
           [] a.state.tag = "Work" -> Ratio(a.state.time_left, a.settings.work_time)
           [] a.state.tag = "ShortWait" ->
                 Ratio(a.state.time_left, a.settings.short_wait_time)
           [] a.state.tag = "LongWait" ->
                 Ratio(a.state.time_left, a.settings.long_wait_time)

\* ------------------------------------------------------- reading the history
\* The App before the last operation.
pre == hist.pre
\* The last operation was update (advance).
Advanced == hist.op = "update"
\* now - last_update_time as that update computed it.
Delta == hist.now - pre.last_update_time
\* That update ran the countdown: not paused, not in the menu.
Running == Advanced /\ ~pre.paused /\ pre.state.tag # "Menu"
\* That update found the phase exhausted.
Exhausted == Running /\ pre.state.time_left - Delta <= 0
\* The configured duration of a phase.
FullDuration(settings, tag) ==
    CASE tag = "Work" -> settings.work_time
      [] tag = "ShortWait" -> settings.short_wait_time
      [] tag = "LongWait" -> settings.long_wait_time
\* The three durations are positive.
PositiveDurations(settings) ==
    /\ settings.work_time > 0
    /\ settings.short_wait_time > 0
    /\ settings.long_wait_time > 0
\* All three durations are positive and there is at least one cycle.
ValidSettings(settings) == PositiveDurations(settings) /\ settings.work_cycles >= 1

\* ------------------------------------------------------------------ claims

\* C1: when update exhausts a Work phase, the next phase is LongWait with the
\* full long_wait_time if cycle is 1 and ShortWait with the full
\* short_wait_time if cycle is greater than 1; cycle is unchanged in both.
C1_WorkExhausted ==
    (Exhausted /\ pre.state.tag = "Work" /\ pre.cycle # None) =>
        /\ pre.cycle = Some(1) =>
              /\ app.state = LongWait(app.settings.long_wait_time)
              /\ app.cycle = pre.cycle
        /\ pre.cycle \notin {Some(0), Some(1)} =>
              /\ app.state = ShortWait(app.settings.short_wait_time)
              /\ app.cycle = pre.cycle

\* C1 witness: with two or more cycles and positive durations, the last work
\* interval of a set has just been exhausted into the long break.
C1_Witness ==
    /\ Exhausted
    /\ ValidSettings(app.settings)
    /\ app.settings.work_cycles >= 2
    /\ pre.state.tag = "Work"
    /\ pre.cycle = Some(1)
    /\ nTrans = 2 * app.settings.work_cycles - 1
    /\ app.state = LongWait(app.settings.long_wait_time)

\* C2: when update exhausts a break, the next phase is Work with the full
\* work_time; leaving ShortWait with cycle n sets cycle to n - 1, leaving
\* LongWait sets cycle to work_cycles.  n - 1 is a count, so it exists only
\* for n >= 1.  Stated for sessions whose durations are all positive, so
\* that a run refuting it owes nothing to a zero duration.
C2_BreakExhausted ==
    (/\ Exhausted
     /\ pre.state.tag \in {"ShortWait", "LongWait"}
     /\ PositiveDurations(app.settings)) =>
        /\ pc = "run"
        /\ app.state = Work(app.settings.work_time)
        /\ pre.state.tag = "ShortWait" =>
              /\ pre.cycle # None
              /\ pre.cycle # Some(0)
              /\ app.cycle = Some(pre.cycle[1] - 1)
        /\ pre.state.tag = "LongWait" =>
              app.cycle = Some(app.settings.work_cycles)

\* The k-th phase (k = 0, 1, 2, ...) of a session of N >= 1 cycles, with its
\* counter: Work(N), Short(N), Work(N-1), ..., Work(1), Long(1), Work(N), ...
ExpectedPhase(N, k) ==
    LET p == k % (2 * N)
    IN  IF p % 2 = 0 THEN <<"Work", Some(N - p \div 2)>>
        ELSE IF p = 2 * N - 1 THEN <<"LongWait", Some(1)>>
        ELSE <<"ShortWait", Some(N - (p - 1) \div 2)>>

\* C3: for every work_cycles N >= 1, the phase reached k exhaustions after
\* start() is the k-th of Work(N), ShortWait(N), Work(N-1), ..., Work(1),
\* LongWait(1), Work(N), ...
C3_CycleSequence ==
    (app.settings.work_cycles >= 1 /\ app.state.tag # "Menu") =>
        <<app.state.tag, app.cycle>> = ExpectedPhase(app.settings.work_cycles, nTrans)

\* C3 witness: a whole set of two cycles has gone by on positive durations
\* and the counter is back at work_cycles.
C3_Witness ==
    /\ Exhausted
    /\ ValidSettings(app.settings)
    /\ app.settings.work_cycles = 2
    /\ nTrans = 4
    /\ pre.state.tag = "LongWait"
    /\ app.state.tag = "Work"
    /\ app.cycle = Some(2)

\* C4: an unpaused update outside the menu with remaining r and elapsed
\* delta: if delta < r the variant and cycle stay and time_left becomes
\* r - delta; if delta >= r (also delta = r) the phase changes.
C4_CountdownOrTransition ==
    Running =>
        LET r == pre.state.time_left
        IN  /\ Delta < r =>
                  /\ app.state.tag = pre.state.tag
                  /\ app.cycle = pre.cycle
                  /\ app.state.time_left = r - Delta
            /\ Delta >= r => app.state.tag # pre.state.tag

\* C4 witness: update one millisecond before the end of a fresh work
\* interval leaves Work with time_left = 1.
C4_Witness ==
    /\ Running
    /\ pre.state = Work(app.settings.work_time)
    /\ Delta = app.settings.work_time - 1
    /\ app.state = Work(1)

\* C5: one update makes at most one phase change, and the phase entered
\* starts at its full configured duration whatever the overshoot.
C5_NoCarryOver ==
    Exhausted =>
        /\ app.state.time_left = FullDuration(app.settings, app.state.tag)
        /\ pre.state.tag = "Work" => app.state.tag \in {"ShortWait", "LongWait"}
        /\ pre.state.tag \in {"ShortWait", "LongWait"} => app.state.tag = "Work"

\* C5 witness: the overshoot alone is at least the whole positive duration
\* of the phase entered, which still starts full.
C5_Witness ==
    /\ Exhausted
    /\ ValidSettings(app.settings)
    /\ Delta - pre.state.time_left >= FullDuration(app.settings, app.state.tag)
    /\ app.state.time_left = FullDuration(app.settings, app.state.tag)

\* C6: an update while paused changes nothing but last_update_time, which
\* becomes the clock reading; so an unpaused update that stays in its phase
\* subtracts exactly the time since the latest call of update (or start).
C6_PausedUpdate ==
    /\ (Advanced /\ pre.paused) => app = [pre EXCEPT !.last_update_time = hist.now]
    /\ (Running /\ app.state.tag = pre.state.tag) =>
          app.state.time_left = pre.state.time_left - (hist.now - hist.prev_call)

\* C6 witness: a paused update arrives later than the whole remaining time
\* of a running work interval and leaves it as it was.
C6_Witness ==
    /\ Advanced
    /\ pre.paused
    /\ pre.state.tag = "Work"
    /\ pre.state.time_left > 0
    /\ Delta > pre.state.time_left
    /\ app.state = pre.state
    /\ app.last_update_time = hist.now

\* C7: start() from any state gives Work with the full work_time, cycle =
\* work_cycles and last_update_time = the clock reading, changes nothing
\* else and does not fail.
C7_Start ==
    hist.op = "start" =>
        /\ pc = "run"
        /\ app = [pre EXCEPT !.state = Work(pre.settings.work_time),
                             !.cycle = Some(pre.settings.work_cycles),
                             !.last_update_time = hist.now]

\* C7 witness: start() during the second short break of three cycles, part
\* of the break already used up and the clock moved on.
C7_Witness ==
    /\ hist.op = "start"
    /\ ValidSettings(app.settings)
    /\ app.settings.work_cycles = 3
    /\ pre.state.tag = "ShortWait"
    /\ pre.cycle = Some(2)
    /\ pre.state.time_left < app.settings.short_wait_time
    /\ pre.last_update_time < hist.now
    /\ app.state = Work(app.settings.work_time)
    /\ app.cycle = Some(3)

\* C8: update in the menu, paused or not, leaves the menu and the unset
\* cycle and sets last_update_time to the clock reading.
C8_MenuUpdate ==
    (Advanced /\ pre.state = Menu) =>
        /\ app.state = Menu
        /\ app.cycle = None
        /\ app.last_update_time = hist.now
        /\ app.paused = pre.paused

\* C8 witness: an unpaused update in the menu after the clock has moved.
C8_Witness ==
    /\ Advanced
    /\ pre.state = Menu
    /\ ~pre.paused
    /\ Delta > 0
    /\ app.state = Menu
    /\ app.last_update_time = hist.now

\* C9: the 'p' key flips paused and changes nothing else.
C9_TogglePause ==
    hist.op = "toggle_pause" =>
        /\ app = [pre EXCEPT !.paused = ~pre.paused]
        /\ pc = "run"

\* C9 witness: 'p' resumes a paused short break that is partly used up.
C9_Witness ==
    /\ hist.op = "toggle_pause"
    /\ pre.paused
    /\ ~app.paused
    /\ pre.state.tag = "ShortWait"
    /\ pre.state.time_left < app.settings.short_wait_time
    /\ pre.state.time_left > 0

\* The f64 quotient is exactly 1.0.
RatioIsOne(r) == r.den # 0 /\ r.num = r.den

\* C10: whenever paused, in every phase, the text is the paused indicator
\* and the ratio is exactly 1.0.
C10_PausedDisplay ==
    app.paused =>
        /\ get_state_text(app) = "PAUSED"
        /\ RatioIsOne(get_ratio(app))

\* C10 witness: paused in a short break of which part is used up.
C10_Witness ==
    /\ app.paused
    /\ app.state.tag = "ShortWait"
    /\ app.state.time_left > 0
    /\ app.state.time_left < app.settings.short_wait_time
    /\ get_state_text(app) = "PAUSED"

\* C11: in the key dispatch of the loop only 's' and 'p' change the App:
\* 'q' ends the loop at once, without update and without changing the App,
\* and nothing runs after it; any other key or event changes no field of
\* the App and leaves the loop running.
C11_KeyDispatch ==
    /\ hist.op = "quit" => (app = pre /\ pc = "quit")
    /\ hist.op = "ignored" => (app = pre /\ pc = "run")
    /\ pc = "quit" => hist.op = "quit"
    /\ (hist.op \notin {"start", "toggle_pause", "update"}) => app = pre

\* C11 witness: 'q' is pressed in a running phase whose time is up, so that
\* an update would have changed the phase, and the App stays as it was.
C11_Witness ==
    /\ hist.op = "quit"
    /\ pc = "quit"
    /\ ValidSettings(app.settings)
    /\ PhaseDue(pre, hist.now)
    /\ app = pre

\* C13: a configuration with a duration of zero (or less) or with zero
\* cycles is rejected before the loop is entered, so no session is ever
\* started on settings that are not valid.
C13_ConfigRejected ==
    hist.started => ValidSettings(app.settings)

\* C15: with work_cycles N >= 1, in every reachable state: the state is
\* Menu exactly when cycle is unset, and exactly when start() was never
\* called; after start() 1 <= cycle <= N, ShortWait occurs only with cycle
\* >= 2, the displayed index N - cycle + 1 lies in 1..N, and no
\* unreachable!() arm (nor any other panic) of update is taken.
C15_CycleInvariants ==
    app.settings.work_cycles >= 1 =>
        LET N == app.settings.work_cycles
        IN  /\ (app.state = Menu) <=> (app.cycle = None)
            /\ (app.cycle = None) <=> ~hist.started
            /\ app.cycle # None =>
                  /\ app.cycle[1] \in 1..N
                  /\ (N - app.cycle[1] + 1) \in 1..N
                  /\ app.state.tag = "ShortWait" => app.cycle[1] >= 2
            /\ pc # "panic"

\* C15 witness: the second short break of a session of three cycles on
\* positive durations, entered by update with cycle = 2 (index 2 of 3).
C15_Witness ==
    /\ Exhausted
    /\ hist.started
    /\ ValidSettings(app.settings)
    /\ app.settings.work_cycles = 3
    /\ app.state.tag = "ShortWait"
    /\ app.cycle = Some(2)
    /\ nTrans = 3

\* The f64 quotient lies in [0, 1].
RatioInUnit(r) == r.den > 0 /\ 0 <= r.num /\ r.num <= r.den

\* C16: with positive configured durations (the clock never runs backwards),
\* every state the loop can render outside the menu has 0 < time_left <=
\* the configured duration of its phase, so get_ratio is within [0, 1] and
\* no time_left <= 0 is ever stored or shown.
C16_RemainingInRange ==
    PositiveDurations(app.settings) =>
        /\ app.state.tag # "Menu" =>
              /\ 0 < app.state.time_left
              /\ app.state.time_left <= FullDuration(app.settings, app.state.tag)
        /\ RatioInUnit(get_ratio(app))
        /\ app.state.tag # "Menu" => RatioInUnit(get_ratio([app EXCEPT !.paused = FALSE]))

\* C16 witness: an unpaused update has counted a short break down to its
\* last millisecond; the ratio shown is 1 / short_wait_time.
C16_Witness ==
    /\ Running
    /\ PositiveDurations(app.settings)
    /\ ~app.paused
    /\ app.state = ShortWait(1)
    /\ get_ratio(app) = Ratio(1, app.settings.short_wait_time)

\* C19: start() leaves paused as it was; after a start() made while paused,
\* and until the next 'p' key, the session stays paused in Work with the
\* full work_time and cycle = work_cycles whatever updates and clock time
\* go by, and the text shown is the paused indicator.
C19_StartKeepsPaused ==
    /\ hist.op = "start" => app.paused = pre.paused
    /\ hist.held =>
          /\ app.paused
          /\ app.state = Work(app.settings.work_time)
          /\ app.cycle = Some(app.settings.work_cycles)
          /\ get_state_text(app) = "PAUSED"

\* C19 witness: start() was made while paused, no 'p' since, and an update
\* arrives after more than the whole positive work_time: the work interval
\* is still full.
C19_Witness ==
    /\ hist.held
    /\ Advanced
    /\ app.settings.work_time > 0
    /\ Delta >= app.settings.work_time
    /\ app.paused
    /\ app.state = Work(app.settings.work_time)

\* C17: in every reachable unpaused state outside the menu, for all clock
\* readings t1 <= t2 from now on such that the phase is not exhausted by
\* t2, update at t1 followed by update at t2 gives exactly the App that
\* update at t2 alone gives, and its time_left is the present one minus
\* the whole time elapsed since the latest call.
C17_CadenceIndependence ==
    (pc = "run" /\ ~app.paused /\ app.state.tag # "Menu") =>
        \A t2 \in {t \in ClockReadings : clock <= t /\ ~PhaseDue(app, t)} :
            LET one == update_app(app, t2, FALSE)
            IN  /\ ~one.panicked
                /\ one.app.state.tag = app.state.tag
                /\ one.app.state.time_left =
                      app.state.time_left - (t2 - app.last_update_time)
                /\ \A t1 \in {t \in ClockReadings : clock <= t /\ t <= t2} :
                      update_app(update_app(app, t1, FALSE).app, t2, FALSE) = one

\* C17 witness: two updates in one work interval at irregular intervals,
\* the first a millisecond before the end of the first minute and the
\* second a millisecond later; together they have taken off one minute.
C17_Witness ==
    /\ Running
    /\ app.state.tag = "Work"
    /\ pre.state = Work(app.settings.work_time - (MsPerMinute - 1))
    /\ Delta = 1
    /\ app.state = Work(app.settings.work_time - MsPerMinute)

\* C20: an unpaused update subtracts the clock reading minus that of the
\* call of update (or start, or new) just before it, whatever 'p' keys and
\* paused time lie between the two; when the session was not paused at the
\* earlier call, the App after the update is the one update gives straight
\* from the App the earlier call left, as in a run with no pause at all.
C20_PauseAccounting ==
    (Running /\ hist.gap.rec) =>
        /\ Delta = hist.now - hist.prev_call
        /\ ~hist.gap.at_call.paused =>
              /\ pre = hist.gap.at_call
              /\ \E checked \in BOOLEAN :
                    app = update_app(hist.gap.at_call, hist.now, checked).app
              /\ app.state.tag = pre.state.tag =>
                    app.state.time_left =
                        hist.gap.at_call.state.time_left - (hist.now - hist.prev_call)

\* C20 witness: between two updates of a work interval the session was
\* paused and resumed, with clock time gone by while it was paused; the
\* second update counts the whole interval down.
C20_Witness ==
    /\ Running
    /\ hist.gap.rec
    /\ hist.gap.toggles = 2
    /\ hist.gap.paused_time
    /\ ~hist.gap.at_call.paused
    /\ hist.gap.at_call.state.tag = "Work"
    /\ hist.gap.at_call.state.time_left < app.settings.work_time
    /\ app.state.tag = "Work"
    /\ Delta > 0
    /\ app.state.time_left = hist.gap.at_call.state.time_left - Delta

Next ==
    \/ KeyStart
    \/ KeyPause
    \/ KeyQuit
    \/ KeyOther
    \/ Tick
    \/ ClockAdvance

Spec == Init /\ [][Next]_vars

\* The sessions on which the pauses between two calls are recorded: valid
\* settings, both breaks of one length.
InitGap ==
    /\ clock = 0
    /\ \E args \in Args :
          /\ ValidSettings(Settings_new(args))
          /\ args.short_wait_time = args.long_wait_time
          /\ app = App_new(args, get_sys_time)
    /\ pc = "run"
    /\ nTrans = 0
    /\ hist = [op |-> "new", pre |-> app, now |-> clock, prev_call |-> clock,
               started |-> FALSE, held |-> FALSE,
               gap |-> NoGap(TRUE, app)]
    /\ term = InLoop
    /\ fmt = NoFmt

SpecGap == InitGap /\ [][Next]_vars

\* ------------------------------------------- convert_millis_to_time alone
\* The arguments on which convert_millis_to_time is run: whole seconds and
\* the last millisecond of each second.
FmtInputs ==
    {(mn * 60 + sc) * 1000 + ms :
        mn \in (0..MaxFmtMinutes) \cup {99, 100}, sc \in 0..59, ms \in {0, 999}}

InitFmt ==
    /\ clock = 0
    /\ app = App_new([work_time |-> 0, short_wait_time |-> 0,
                      long_wait_time |-> 0, cycles |-> 0], get_sys_time)
    /\ pc = "format"
    /\ nTrans = 0
    /\ hist = [op |-> "new", pre |-> app, now |-> clock, prev_call |-> clock,
               started |-> FALSE, held |-> FALSE,
               gap |-> NoGap(FALSE, app)]
    /\ term = Cooked
    /\ \E millis \in FmtInputs : fmt = [millis |-> millis, done |-> FALSE, text |-> ""]

\* convert_millis_to_time(millis) returns
Format ==
    /\ pc = "format"
    /\ ~fmt.done
    /\ fmt' = [fmt EXCEPT !.done = TRUE, !.text = convert_millis_to_time(fmt.millis)]
    /\ UNCHANGED <<app, clock, pc, nTrans, hist, term>>

NextFmt == Format

SpecFmt == InitFmt /\ [][NextFmt]_vars

\* The decimal digit d.
Digit(d) ==
    CASE d = 0 -> "0" [] d = 1 -> "1" [] d = 2 -> "2" [] d = 3 -> "3"
      [] d = 4 -> "4" [] d = 5 -> "5" [] d = 6 -> "6" [] d = 7 -> "7"
      [] d = 8 -> "8" [] d = 9 -> "9"

\* n >= 0 in decimal, with leading zeros up to two digits.
RECURSIVE Decimal(_)
Decimal(n) == IF n < 10 THEN Digit(n) ELSE Decimal(n \div 10) \o Digit(n % 10)
TwoDigits(n) == IF n < 10 THEN "0" \o Digit(n) ELSE Decimal(n)

\* C14: for every millis >= 0 convert_millis_to_time returns the minutes
\* (millis div 1000) div 60 and the seconds (millis div 1000) mod 60, each
\* in decimal with at least two digits, joined by ':'; seconds < 60,
\* minutes * 60 + seconds = millis div 1000, and 125000 gives "02:05".
C14_Format ==
    fmt.done =>
        LET total == fmt.millis \div 1000
            minutes == total \div 60
            seconds == total % 60
        IN  /\ fmt.text = TwoDigits(minutes) \o ":" \o TwoDigits(seconds)
            /\ seconds < 60
            /\ minutes * 60 + seconds = total
            /\ Len(fmt.text) >= 5
            /\ fmt.millis = 125000 => fmt.text = "02:05"
            /\ fmt.millis = 125999 => fmt.text = "02:05"

\* C14 witness: convert_millis_to_time(125000) has returned "02:05".
C14_Witness ==
    /\ fmt.done
    /\ fmt.millis = 125000
    /\ fmt.text = "02:05"

\* --------------------------------------------------------- main as a whole
\* main after Parser::parse(): the terminal is as the shell left it.  The
\* App is the one line 54 will build (no clock time goes by in the model
\* before the loop).  Sessions with the three durations equal.
InitMain ==
    /\ clock = 0
    /\ \E args \in Args :
          /\ args.short_wait_time = args.work_time
          /\ args.long_wait_time = args.work_time
          /\ app = App_new(args, get_sys_time)
    /\ pc = "enable_raw"
    /\ nTrans = 0
    /\ hist = [op |-> "new", pre |-> app, now |-> clock, prev_call |-> clock,
               started |-> FALSE, held |-> FALSE,
               gap |-> NoGap(FALSE, app)]
    /\ term = Cooked
    /\ fmt = NoFmt

\* main: enable_raw_mode()?
EnableRaw ==
    /\ pc = "enable_raw"
    /\ \/ term' = [term EXCEPT !.raw = TRUE] /\ pc' = "enter_alt"
       \/ term' = term /\ pc' = "exited_err"
    /\ UNCHANGED <<app, clock, nTrans, hist, fmt>>

\* main: execute!(stdout, EnterAlternateScreen, EnableMouseCapture)?  When
\* it fails, either command may or may not have reached the terminal.
EnterAlt ==
    /\ pc = "enter_alt"
    /\ \/ term' = [term EXCEPT !.alt = TRUE] /\ pc' = "terminal_new"
       \/ /\ \E entered \in BOOLEAN : term' = [term EXCEPT !.alt = entered]
          /\ pc' = "exited_err"
    /\ UNCHANGED <<app, clock, nTrans, hist, fmt>>

\* main: Terminal::new(backend)?
TerminalNew ==
    /\ pc = "terminal_new"
    /\ pc' \in {"run", "exited_err"}
    /\ UNCHANGED <<app, clock, nTrans, hist, term, fmt>>

\* run_app: terminal.draw(..)?, event::poll(..)? or event::read()? fails
LoopIoError ==
    /\ pc = "run"
    /\ pc' = "loop_err"
    /\ UNCHANGED <<app, clock, nTrans, hist, term, fmt>>

\* main: disable_raw_mode()? after run_app has returned Ok or Err
DisableRaw ==
    /\ pc \in {"quit", "loop_err"}
    /\ \/ term' = [term EXCEPT !.raw = FALSE] /\ pc' = "leave_alt"
       \/ term' = term /\ pc' = "exited_err"
    /\ UNCHANGED <<app, clock, nTrans, hist, fmt>>

\* main: execute!(terminal.backend_mut(), LeaveAlternateScreen,
\* DisableMouseCapture)?
LeaveAlt ==
    /\ pc = "leave_alt"
    /\ \/ term' = [term EXCEPT !.alt = FALSE] /\ pc' = "show_cursor"
       \/ /\ \E left \in BOOLEAN : term' = [term EXCEPT !.alt = ~left]
          /\ pc' = "exited_err"
    /\ UNCHANGED <<app, clock, nTrans, hist, fmt>>

\* main: terminal.show_cursor()?, then the report of run_app's error and Ok(())
ShowCursor ==
    /\ pc = "show_cursor"
    /\ pc' \in {"exited", "exited_err"}
    /\ UNCHANGED <<app, clock, nTrans, hist, term, fmt>>

NextMain ==
    \/ EnableRaw
    \/ EnterAlt
    \/ TerminalNew
    \/ Next
    \/ LoopIoError
    \/ DisableRaw
    \/ LeaveAlt
    \/ ShowCursor

SpecMain == InitMain /\ [][NextMain]_vars

\* C12: however the process ends once main has started on the terminal (by
\* returning Ok, by returning an error from a setup step, from the loop or
\* from a restoration step, or by a panic), raw mode is off and the
\* alternate screen has been left.
C12_TerminalRestored ==
    pc \in {"exited", "exited_err", "panic"} => term = Cooked

\* ------------------------------------------------- the loop, run for ever
\* The program uses clock readings only through now - last_update_time, so
\* a behaviour without end is followed with the origin of time moved to
\* the latest call of start or update: after each of them both
\* last_update_time and the clock are 0.  The clock then runs up to
\* MaxClockMinutes before the next tick.
Rebase(a) == [a EXCEPT !.last_update_time = 0]

\* history kept on such a behaviour: the last operation and whether start
\* was ever called
LiveLog(op) == [hist EXCEPT !.op = op, !.started = @ \/ op = "start"]

\* Sessions of at least one cycle, the three durations equal and positive.
InitLive ==
    /\ clock = 0
    /\ \E args \in Args :
          /\ ValidSettings(Settings_new(args))
          /\ args.short_wait_time = args.work_time
          /\ args.long_wait_time = args.work_time
          /\ app = App_new(args, get_sys_time)
    /\ pc = "run"
    /\ nTrans = 0
    /\ hist = [op |-> "new", pre |-> app, now |-> clock, prev_call |-> clock,
               started |-> FALSE, held |-> FALSE,
               gap |-> NoGap(FALSE, app)]
    /\ term = InLoop
    /\ fmt = NoFmt

\* run_app: the key 's'
LiveStart ==
    /\ pc = "run"
    /\ app' = Rebase(start(app, get_sys_time))
    /\ clock' = 0
    /\ hist' = LiveLog("start")
    /\ UNCHANGED <<pc, nTrans, term, fmt>>

\* run_app: the key 'p'
LivePause ==
    /\ pc = "run"
    /\ app' = toggle_pause(app)
    /\ hist' = LiveLog("toggle_pause")
    /\ UNCHANGED <<clock, pc, nTrans, term, fmt>>

\* run_app: app.update() when a tick is due
LiveTick ==
    /\ pc = "run"
    /\ \E checked \in BOOLEAN :
          LET r == update_app(app, get_sys_time, checked)
          IN  /\ app' = Rebase(r.app)
              /\ pc' = IF r.panicked THEN "panic" ELSE "run"
    /\ clock' = 0
    /\ hist' = LiveLog("update")
    /\ UNCHANGED <<nTrans, term, fmt>>

\* The wall clock moves on.
LiveClock ==
    /\ pc = "run"
    /\ \E t \in ClockReadings : t > clock /\ clock' = t
    /\ hist' = LiveLog("clock")
    /\ UNCHANGED <<app, pc, nTrans, term, fmt>>

NextLive ==
    \/ LiveStart
    \/ LivePause
    \/ LiveTick
    \/ LiveClock

\* The loop calls update again and again (the tick is due every 500 ms) and
\* the clock keeps moving; the keys come as the user likes.
SpecLive ==
    /\ InitLive
    /\ [][NextLive]_vars
    /\ WF_vars(LiveTick)
    /\ WF_vars(LiveClock)

\* The long break, and the first work interval of a set.
InLongWait == app.state.tag = "LongWait"
InFirstWork == app.state.tag = "Work" /\ app.cycle = Some(app.settings.work_cycles)

\* Every phase eventually ends.
PhasesEnd ==
    /\ (app.state.tag = "Work") ~> (app.state.tag # "Work")
    /\ (app.state.tag = "ShortWait") ~> (app.state.tag # "ShortWait")
    /\ (app.state.tag = "LongWait") ~> (app.state.tag # "LongWait")

\* C18, as stated: once start() has been called, if the clock keeps
\* advancing, update is called infinitely often and the session is not
\* paused for ever (it is unpaused again and again), then every phase
\* eventually ends and LongWait and Work with cycle = work_cycles each
\* recur infinitely often.
C18_Liveness ==
    ((<>hist.started) /\ ([]<>~app.paused)) =>
        (PhasesEnd /\ ([]<>InLongWait) /\ ([]<>InFirstWork))

\* C18, amended: the same, for behaviours in which start() is called only
\* finitely often and from some time on the session is never paused.
C18_LivenessAmended ==
    ((<>hist.started) /\ (<>[](hist.op # "start")) /\ (<>[]~app.paused)) =>
        (PhasesEnd /\ ([]<>InLongWait) /\ ([]<>InFirstWork))

\* C18 witness: a started, unpaused session of two cycles has reached its
\* long break by an update.
C18_Witness ==
    /\ hist.started
    /\ hist.op = "update"
    /\ ~app.paused
    /\ app.settings.work_cycles = 2
    /\ InLongWait

====
